---- MODULE Spec2Model ----
(***************************************************************************)
(* GF(256) arithmetic over the reducing polynomial x^8+x^4+x^3+x+1 and     *)
(* Lagrange interpolation of shares (gf256.h), with the reference          *)
(* implementations and the loops of gf256_test.cc that exercise them.      *)
(***************************************************************************)
EXTENDS Integers, Sequences, FiniteSets, TLC

VARIABLES
    pc,       \* position of the caller: which operation has been applied
    a,        \* GF operand (GF::bits of the first argument)
    b,        \* GF operand (GF::bits of the second argument)
    i,        \* integer exponent
    p,        \* running product of the Power test
    k,        \* first exponent i >= 1 with pow(a, i) == GF(1), 0 when none yet
    shares,   \* the span of shares handed to interpolate
    dest_x,   \* the destination x handed to interpolate
    in,       \* the shares picked out of the pool by the Interpolate test
    r,        \* outcome of the last call
    rinv      \* outcome of the companion call (pow(a, -i), log(exp), exp(log))

vars == <<pc, a, b, i, p, k, shares, dest_x, in, r, rinv>>

\* Values of GF::Bits (std::uint8_t).
Bits == 0..255

\* GF::max, the size of the multiplicative group.
max == 255

\* GF::logs, logarithm table of generator element 3.
logs == <<
    0, 25, 1, 50, 2, 26, 198, 75, 199, 27, 104, 51, 238, 223, 3,
    100, 4, 224, 14, 52, 141, 129, 239, 76, 113, 8, 200, 248, 105, 28,
    193, 125, 194, 29, 181, 249, 185, 39, 106, 77, 228, 166, 114, 154, 201,
    9, 120, 101, 47, 138, 5, 33, 15, 225, 36, 18, 240, 130, 69, 53,
    147, 218, 142, 150, 143, 219, 189, 54, 208, 206, 148, 19, 92, 210, 241,
    64, 70, 131, 56, 102, 221, 253, 48, 191, 6, 139, 98, 179, 37, 226,
    152, 34, 136, 145, 16, 126, 110, 72, 195, 163, 182, 30, 66, 58, 107,
    40, 84, 250, 133, 61, 186, 43, 121, 10, 21, 155, 159, 94, 202, 78,
    212, 172, 229, 243, 115, 167, 87, 175, 88, 168, 80, 244, 234, 214, 116,
    79, 174, 233, 213, 231, 230, 173, 232, 44, 215, 117, 122, 235, 22, 11,
    245, 89, 203, 95, 176, 156, 169, 81, 160, 127, 12, 246, 111, 23, 196,
    73, 236, 216, 67, 31, 45, 164, 118, 123, 183, 204, 187, 62, 90, 251,
    96, 177, 134, 59, 82, 161, 108, 170, 85, 41, 157, 151, 178, 135, 144,
    97, 190, 220, 252, 188, 149, 207, 205, 55, 63, 91, 209, 83, 57, 132,
    60, 65, 162, 109, 71, 20, 42, 158, 93, 86, 242, 211, 171, 68, 17,
    146, 217, 35, 32, 46, 137, 180, 124, 184, 38, 119, 153, 227, 165, 103,
    74, 237, 222, 197, 49, 254, 24, 13, 99, 140, 128, 192, 247, 112, 7
>>

\* GF::ilogs, inverse logarithm table of generator element 3.
ilogs == <<
    1, 3, 5, 15, 17, 51, 85, 255, 26, 46, 114, 150, 161, 248, 19,
    53, 95, 225, 56, 72, 216, 115, 149, 164, 247, 2, 6, 10, 30, 34,
    102, 170, 229, 52, 92, 228, 55, 89, 235, 38, 106, 190, 217, 112, 144,
    171, 230, 49, 83, 245, 4, 12, 20, 60, 68, 204, 79, 209, 104, 184,
    211, 110, 178, 205, 76, 212, 103, 169, 224, 59, 77, 215, 98, 166, 241,
    8, 24, 40, 120, 136, 131, 158, 185, 208, 107, 189, 220, 127, 129, 152,
    179, 206, 73, 219, 118, 154, 181, 196, 87, 249, 16, 48, 80, 240, 11,
    29, 39, 105, 187, 214, 97, 163, 254, 25, 43, 125, 135, 146, 173, 236,
    47, 113, 147, 174, 233, 32, 96, 160, 251, 22, 58, 78, 210, 109, 183,
    194, 93, 231, 50, 86, 250, 21, 63, 65, 195, 94, 226, 61, 71, 201,
    64, 192, 91, 237, 44, 116, 156, 191, 218, 117, 159, 186, 213, 100, 172,
    239, 42, 126, 130, 157, 188, 223, 122, 142, 137, 128, 155, 182, 193, 88,
    232, 35, 101, 175, 234, 37, 111, 177, 200, 67, 197, 84, 252, 31, 33,
    99, 165, 244, 7, 9, 27, 45, 119, 153, 176, 203, 70, 202, 69, 207,
    74, 222, 121, 139, 134, 145, 168, 227, 62, 66, 198, 81, 243, 14, 18,
    54, 90, 238, 41, 123, 141, 140, 143, 138, 133, 148, 167, 242, 13, 23,
    57, 75, 221, 124, 132, 151, 162, 253, 28, 36, 108, 180, 199, 82, 246
>>

\* C array subscript t[j]: arrays are indexed from 0.
At(t, j) == t[j + 1]

\* Outcome of a call: a returned value or a thrown std::runtime_error.
Return(v) == [ok |-> TRUE, val |-> v]
Throw(e) == [ok |-> FALSE, err |-> e]
None == [ok |-> FALSE, err |-> "NotCalled"]

\* Bitwise exclusive-or of two unsigned values.
RECURSIVE Xor(_, _)
Xor(u, v) ==
    IF u = 0 THEN v
    ELSE IF v = 0 THEN u
    ELSE (((u % 2) + (v % 2)) % 2) + 2 * Xor(u \div 2, v \div 2)

\* C++ operator% on int: the quotient truncates toward zero, so the
\* remainder takes the sign of the dividend.
Rem(u, v) == IF u >= 0 THEN u % v ELSE -((-u) % v)

\* operator+ and operator- of GF.
Add(u, v) == Xor(u, v)
Sub(u, v) == Xor(u, v)

\* MulIndex with the wrap-around off by one.
MulIndexOffByOne(u, v) ==
    LET c == At(logs, u - 1) + At(logs, v - 1)
    IN  IF c >= max THEN c - max + 1 ELSE c

\* Reduction of the sum of two logarithms in operator*.
MulIndex(u, v) ==
    LET c == At(logs, u - 1) + At(logs, v - 1)
    IN  IF c >= max THEN c - max ELSE c

\* operator* of GF.
Mul(u, v) ==
    IF u = 0 \/ v = 0 THEN 0
    ELSE At(ilogs, MulIndex(u, v))

\* Div with the two logarithms subtracted the wrong way round.
DivSwapped(u, v) ==
    IF v = 0 THEN Throw("DivideByZero")
    ELSE IF u = 0 THEN Return(0)
    ELSE LET c == At(logs, v - 1) - At(logs, u - 1)
             d == IF c < 0 THEN c + max ELSE c
         IN  Return(At(ilogs, d))

\* operator/ of GF.
Div(u, v) ==
    IF v = 0 THEN Throw("DivideByZero")
    ELSE IF u = 0 THEN Return(0)
    ELSE LET c == At(logs, u - 1) - At(logs, v - 1)
             d == IF c < 0 THEN c + max ELSE c
         IN  Return(At(ilogs, d))

\* log with the table indexed by the value instead of the value minus one.
logByValue(u) ==
    IF u = 0 THEN Throw("LogOfZero")
    ELSE Return(At(logs, u % max))

\* log(GF): discrete logarithm of base 3.
log(u) ==
    IF u = 0 THEN Throw("LogOfZero")
    ELSE Return(At(logs, u - 1))

\* GF::exp: the generator raised to the power e.
exp(e) ==
    LET e1 == Rem(e, max)
        e2 == IF e1 < 0 THEN e1 + max ELSE e1
    IN  At(ilogs, e2)

\* pow with the sign of the exponent dropped.
powAbs(u, e) ==
    IF u = 0 THEN (IF e <= 0 THEN Throw("DomainError") ELSE Return(0))
    ELSE LET e1 == Rem(IF e < 0 THEN 0 - e ELSE e, max)
         IN  IF e1 = 0 THEN Return(1)
             ELSE Return(exp(e1 * At(logs, u - 1)))

\* pow(GF, int).
pow(u, e) ==
    IF u = 0 THEN (IF e <= 0 THEN Throw("DomainError") ELSE Return(0))
    ELSE LET e1 == Rem(e, max)
         IN  IF e1 = 0 THEN Return(1)
             ELSE Return(exp(e1 * At(logs, u - 1)))

\* mult_slow of gf256_test.cc: shift-and-xor multiplication, the loop
\* unrolled as a recursion on (a, b, p).
RECURSIVE mult_loop(_, _, _)
mult_loop(u, v, acc) ==
    LET acc1 == IF v % 2 = 1 THEN Xor(acc, u) ELSE acc
        v1 == v \div 2
        carry == u >= 128
        u1 == (u * 2) % 256
        u2 == IF carry THEN Xor(u1, 27) ELSE u1
    IN  IF v1 = 0 THEN acc1 ELSE mult_loop(u2, v1, acc1)

mult_slow(u, v) ==
    IF u = 0 \/ v = 0 THEN 0 ELSE mult_loop(u, v, 0)

\* A Share: an x and the vector of its y values.
Share(x, ys) == [x |-> x, ys |-> ys]

\* SumLogs with the test of s.x against dest_x made before the test of the
\* width.
RECURSIVE SumLogsReturnFirst(_, _, _, _, _)
SumLogsReturnFirst(ss, dx, m, j, acc) ==
    IF j > Len(ss) THEN [done |-> FALSE, a |-> acc]
    ELSE LET s == ss[j]
             d == Sub(s.x, dx)
         IN  IF d = 0
                 THEN [done |-> TRUE, out |-> Return(s)]
             ELSE IF Len(s.ys) # m
                 THEN [done |-> TRUE, out |-> Throw("MismatchedShareWidth")]
             ELSE SumLogsReturnFirst(ss, dx, m, j + 1, acc + log(d).val)

\* SumLogs without the return of the share whose x is dest_x.
RECURSIVE SumLogsNoReturn(_, _, _, _, _)
SumLogsNoReturn(ss, dx, m, j, acc) ==
    IF j > Len(ss) THEN [done |-> FALSE, a |-> acc]
    ELSE LET s == ss[j]
             l == log(Sub(s.x, dx))
         IN  IF Len(s.ys) # m
                 THEN [done |-> TRUE, out |-> Throw("MismatchedShareWidth")]
             ELSE IF ~l.ok THEN [done |-> TRUE, out |-> l]
             ELSE SumLogsNoReturn(ss, dx, m, j + 1, acc + l.val)

\* First loop of interpolate, from the share at position j on: checks the
\* width of each share, returns the share whose x is dest_x, and adds up
\* the logarithms of (s.x - dest_x) in acc. Yields the outcome that ends the
\* call (done), or the sum a once every share has been visited.
RECURSIVE SumLogs(_, _, _, _, _)
SumLogs(ss, dx, m, j, acc) ==
    IF j > Len(ss) THEN [done |-> FALSE, a |-> acc]
    ELSE LET s == ss[j]
             d == Sub(s.x, dx)
         IN  IF Len(s.ys) # m
                 THEN [done |-> TRUE, out |-> Throw("MismatchedShareWidth")]
             ELSE IF d = 0
                 THEN [done |-> TRUE, out |-> Return(s)]
             ELSE LET l == log(d)
                  IN  IF ~l.ok THEN [done |-> TRUE, out |-> l]
                      ELSE SumLogs(ss, dx, m, j + 1, acc + l.val)

\* SubLogs with the shares compared by their x instead of their identity:
\* a share t with s.x = t.x is skipped.
RECURSIVE SubLogsSkipEqualX(_, _, _, _)
SubLogsSkipEqualX(ss, si, j, acc) ==
    IF j > Len(ss) THEN Return(acc)
    ELSE LET d == Sub(ss[si].x, ss[j].x)
         IN  IF d = 0 THEN SubLogsSkipEqualX(ss, si, j + 1, acc)
             ELSE SubLogsSkipEqualX(ss, si, j + 1, acc - log(d).val)

\* Inner loop of interpolate over the shares t other than the share at
\* position si, from position j on: subtracts log(s.x - t.x) from acc.
RECURSIVE SubLogs(_, _, _, _)
SubLogs(ss, si, j, acc) ==
    IF j > Len(ss) THEN Return(acc)
    ELSE IF j = si THEN SubLogs(ss, si, j + 1, acc)
    ELSE LET d == Sub(ss[si].x, ss[j].x)
         IN  IF d = 0 THEN Throw("DuplicateXValue")
             ELSE SubLogs(ss, si, j + 1, acc - log(d).val)

\* Accumulate with r.ys[i] assigned instead of added to.
AccumulateAssign(ys, s, bl) ==
    [j \in 1..Len(ys) |->
        IF s.ys[j] # 0 THEN exp(bl + log(s.ys[j]).val)
        ELSE ys[j]]

\* r.ys after the share s has been accumulated with basis logarithm bl.
Accumulate(ys, s, bl) ==
    [j \in 1..Len(ys) |->
        IF s.ys[j] # 0 THEN Add(ys[j], exp(bl + log(s.ys[j]).val))
        ELSE ys[j]]

\* Basis with log(s.x - dest_x) left in the sum a.
RECURSIVE BasisKeepOwnTerm(_, _, _, _, _)
BasisKeepOwnTerm(ss, dx, la, si, ys) ==
    IF si > Len(ss) THEN Return(Share(dx, ys))
    ELSE LET bl == SubLogs(ss, si, 1, la)
         IN  IF ~bl.ok THEN bl
             ELSE BasisKeepOwnTerm(ss, dx, la, si + 1,
                                   Accumulate(ys, ss[si], bl.val))

\* Second loop of interpolate, from the share at position si on.
RECURSIVE Basis(_, _, _, _, _)
Basis(ss, dx, la, si, ys) ==
    IF si > Len(ss) THEN Return(Share(dx, ys))
    ELSE LET l == log(Sub(ss[si].x, dx))
         IN  IF ~l.ok THEN l
             ELSE LET bl == SubLogs(ss, si, 1, la - l.val)
                  IN  IF ~bl.ok THEN bl
                      ELSE Basis(ss, dx, la, si + 1,
                                 Accumulate(ys, ss[si], bl.val))

\* interpolate that accepts a single share.
interpolateOneShare(ss, dx) ==
    IF Len(ss) < 1 THEN Throw("TooFewShares")
    ELSE LET m == Len(ss[1].ys)
             first == SumLogs(ss, dx, m, 1, 0)
         IN  IF first.done THEN first.out
             ELSE Basis(ss, dx, first.a, 1, [j \in 1..m |-> 0])

\* interpolate(shares, dest_x).
interpolate(ss, dx) ==
    IF Len(ss) < 2 THEN Throw("TooFewShares")
    ELSE LET m == Len(ss[1].ys)
             first == SumLogs(ss, dx, m, 1, 0)
         IN  IF first.done THEN first.out
             ELSE Basis(ss, dx, first.a, 1, [j \in 1..m |-> 0])

\* Largest magnitude of the exponents handed to exp and pow.
MaxExp == 520

Exponents == (0 - MaxExp)..MaxExp

\* The variables no field operation touches.
NoShares ==
    /\ shares = <<>>
    /\ dest_x = 0
    /\ in = <<>>

(***************************************************************************)
(* Multiplication and division: the caller holds two elements a and b and *)
(* applies operator* or operator/ to them (TEST Multiply, TEST Divide).    *)
(***************************************************************************)
InitField ==
    /\ pc = "call"
    /\ a \in Bits
    /\ b \in Bits
    /\ i = 0 /\ p = 0 /\ k = 0
    /\ r = None /\ rinv = None
    /\ NoShares

\* c = a * b
Multiply ==
    /\ pc = "call"
    /\ pc' = "mul"
    /\ r' = Return(Mul(a, b))
    /\ UNCHANGED <<a, b, i, p, k, shares, dest_x, in, rinv>>

\* c = a / b
Divide ==
    /\ pc = "call"
    /\ pc' = "div"
    /\ r' = Div(a, b)
    /\ UNCHANGED <<a, b, i, p, k, shares, dest_x, in, rinv>>

NextField == Multiply \/ Divide

SpecField == InitField /\ [][NextField]_vars

(***************************************************************************)
(* Logarithm and generator exponentiation: log(a) followed by exp of the   *)
(* logarithm, and exp(i) followed by log of the power.                     *)
(***************************************************************************)
InitTables ==
    /\ pc = "call"
    /\ a \in Bits
    /\ i \in Exponents
    /\ (a = 0 \/ i = 0)
    /\ b = 0 /\ p = 0 /\ k = 0
    /\ r = None /\ rinv = None
    /\ NoShares

\* r = log(a)
Log ==
    /\ pc = "call"
    /\ i = 0
    /\ pc' = "log"
    /\ r' = log(a)
    /\ UNCHANGED <<a, b, i, p, k, shares, dest_x, in, rinv>>

\* rinv = GF::exp(log(a))
ExpOfLog ==
    /\ pc = "log"
    /\ r.ok
    /\ pc' = "explog"
    /\ rinv' = Return(exp(r.val))
    /\ UNCHANGED <<a, b, i, p, k, shares, dest_x, in, r>>

\* r = GF::exp(i)
Exp ==
    /\ pc = "call"
    /\ a = 0
    /\ pc' = "exp"
    /\ r' = Return(exp(i))
    /\ UNCHANGED <<a, b, i, p, k, shares, dest_x, in, rinv>>

\* rinv = log(GF::exp(i))
LogOfExp ==
    /\ pc = "exp"
    /\ pc' = "logexp"
    /\ rinv' = log(r.val)
    /\ UNCHANGED <<a, b, i, p, k, shares, dest_x, in, r>>

NextTables == Log \/ ExpOfLog \/ Exp \/ LogOfExp

SpecTables == InitTables /\ [][NextTables]_vars

(***************************************************************************)
(* TEST(GF256, Power): p is multiplied by a once per turn of the loop and  *)
(* compared with pow(a, i); pow(a, -i) is computed beside it. The loop is  *)
(* followed past the first i with p == GF(1), up to MaxExp.                *)
(***************************************************************************)
InitPower ==
    /\ pc = "loop"
    /\ a \in Bits
    /\ b = 0
    /\ i = 0
    /\ p = 1
    /\ k = 0
    /\ r = pow(a, 0)
    /\ rinv = pow(a, 0)
    /\ NoShares

\* p *= a; i += 1; pow(a, i); pow(a, -i)
PowerStep ==
    /\ pc = "loop"
    /\ i < MaxExp
    /\ i' = i + 1
    /\ p' = Mul(p, a)
    /\ r' = pow(a, i')
    /\ rinv' = pow(a, 0 - i')
    /\ k' = IF k = 0 /\ r' = Return(1) THEN i' ELSE k
    /\ UNCHANGED <<pc, a, b, shares, dest_x, in>>

NextPower == PowerStep

SpecPower == InitPower /\ [][NextPower]_vars

(***************************************************************************)
(* interpolate: the caller holds a span of shares and a destination x and  *)
(* calls interpolate on them.                                              *)
(***************************************************************************)
\* Largest number of shares in the span, largest number of y values.
MaxShares == 3
MaxWidth == 1

\* The x and y values of the shares of the span, and the destinations.
ShareXs == {1, 2, 255}
ShareYs == {0, 173}
DestXs == ShareXs \cup {0, 7}

\* The sequences over S of length at most n.
SeqUpTo(S, n) == UNION {[1..l -> S] : l \in 0..n}

\* The shares a caller can build from the values above.
Shares == {Share(x, ys) : x \in ShareXs, ys \in SeqUpTo(ShareYs, MaxWidth)}

Init ==
    /\ pc = "call"
    /\ shares \in SeqUpTo(Shares, MaxShares)
    /\ dest_x \in DestXs
    /\ in = <<>>
    /\ a = 0 /\ b = 0 /\ i = 0 /\ p = 0 /\ k = 0
    /\ r = None /\ rinv = None

\* r = interpolate(shares, dest_x)
Interpolate ==
    /\ pc = "call"
    /\ pc' = "done"
    /\ r' = interpolate(shares, dest_x)
    /\ UNCHANGED <<a, b, i, p, k, shares, dest_x, in, rinv>>

Next == Interpolate

Spec == Init /\ [][Next]_vars

(***************************************************************************)
(* TEST(GF256, Interpolate): three base shares at x = 1, 2, 3, further     *)
(* shares interpolated from the three base shares, then interpolation of   *)
(* three shares of the pool, or of a prefix of four or more, at the x of a *)
(* share of the pool.                                                      *)
(***************************************************************************)
\* Largest number of shares in the pool.
MaxPool == 5

\* The y values of the base shares and the x values of the further shares.
BaseYs == {0, 173, 255}
MoreXs == {0, 240, 255}

InitPool ==
    /\ pc = "pool"
    /\ \E m \in 1..MaxWidth :
           \E y1, y2, y3 \in [1..m -> BaseYs] :
               shares = <<Share(1, y1), Share(2, y2), Share(3, y3)>>
    /\ dest_x = 0
    /\ in = <<>>
    /\ a = 0 /\ b = 0 /\ i = 0 /\ p = 0 /\ k = 0
    /\ r = None /\ rinv = None

\* shares.push_back(interpolate({shares.cbegin(), 3}, GF(x)))
AddShare ==
    /\ pc = "pool"
    /\ Len(shares) < MaxPool
    /\ \E x \in MoreXs :
           /\ \A u \in 1..Len(shares) : shares[u].x # x
           /\ LET o == interpolate(SubSeq(shares, 1, 3), x)
              IN  o.ok /\ shares' = Append(shares, o.val)
    /\ UNCHANGED <<pc, a, b, i, p, k, dest_x, in, r, rinv>>

\* interpolate(in, s.x) with in = {shares[u], shares[v], shares[w]}
InterpolateThree ==
    /\ pc = "pool"
    /\ \E u, v, w \in 1..Len(shares) :
           /\ u < v /\ v < w
           /\ in' = <<shares[u], shares[v], shares[w]>>
    /\ \E q \in 1..Len(shares) : dest_x' = shares[q].x
    /\ r' = interpolate(in', dest_x')
    /\ pc' = "three"
    /\ UNCHANGED <<a, b, i, p, k, shares, rinv>>

\* interpolate({shares.cbegin(), n}, s.x) with n >= 4
InterpolatePrefix ==
    /\ pc = "pool"
    /\ \E n \in 4..Len(shares) : in' = SubSeq(shares, 1, n)
    /\ \E q \in 1..Len(shares) : dest_x' = shares[q].x
    /\ r' = interpolate(in', dest_x')
    /\ pc' = "prefix"
    /\ UNCHANGED <<a, b, i, p, k, shares, rinv>>

NextPool == AddShare \/ InterpolateThree \/ InterpolatePrefix

SpecPool == InitPool /\ [][NextPool]_vars

(***************************************************************************)
(* Properties of interpolate.                                              *)
(***************************************************************************)
\* Shape of the input of the call.
DistinctXs(ss) == \A u, v \in 1..Len(ss) : u # v => ss[u].x # ss[v].x
EqualWidths(ss) == \A u \in 1..Len(ss) : Len(ss[u].ys) = Len(ss[1].ys)
HasX(ss, x) == \E u \in 1..Len(ss) : ss[u].x = x
FirstWithX(ss, x) ==
    CHOOSE u \in 1..Len(ss) :
        ss[u].x = x /\ \A v \in 1..(u - 1) : ss[v].x # x
FirstOtherWidth(ss) ==
    CHOOSE u \in 1..Len(ss) :
        /\ Len(ss[u].ys) # Len(ss[1].ys)
        /\ \A v \in 1..(u - 1) : Len(ss[v].ys) = Len(ss[1].ys)

\* The Lagrange basis polynomial of the share at position si evaluated at
\* dx: the product over the other shares t of (dx - t.x) / (s.x - t.x),
\* with the field's multiply and divide, from position j on.
RECURSIVE LagrangeBasis(_, _, _, _)
LagrangeBasis(ss, dx, si, j) ==
    IF j > Len(ss) THEN 1
    ELSE IF j = si THEN LagrangeBasis(ss, dx, si, j + 1)
    ELSE Mul(Div(Sub(dx, ss[j].x), Sub(ss[si].x, ss[j].x)).val,
             LagrangeBasis(ss, dx, si, j + 1))

\* The Lagrange sum of column c over the shares from position si on.
RECURSIVE LagrangeSum(_, _, _, _)
LagrangeSum(ss, dx, c, si) ==
    IF si > Len(ss) THEN 0
    ELSE Add(Mul(ss[si].ys[c], LagrangeBasis(ss, dx, si, 1)),
             LagrangeSum(ss, dx, c, si + 1))

LagrangeShare(ss, dx) ==
    Share(dx, [c \in 1..Len(ss[1].ys) |-> LagrangeSum(ss, dx, c, 1)])

\* C1: for n >= 2 shares with pairwise distinct x and equal width m and a
\* destination that differs from every share's x, interpolate returns the
\* share at dest_x whose m values are the Lagrange sums of the columns,
\* computed with the field's multiply and divide.
C1_InterpolateIsLagrange ==
    (/\ pc = "done"
     /\ Len(shares) >= 2
     /\ DistinctXs(shares)
     /\ EqualWidths(shares)
     /\ ~HasX(shares, dest_x))
    => /\ r.ok
       /\ r.val.x = dest_x
       /\ Len(r.val.ys) = Len(shares[1].ys)
       /\ r.val = LagrangeShare(shares, dest_x)

C1_Witness ==
    /\ pc = "done"
    /\ Len(shares) = 3
    /\ DistinctXs(shares)
    /\ EqualWidths(shares)
    /\ ~HasX(shares, dest_x)
    /\ Len(shares[1].ys) = 1
    /\ shares[1].ys[1] = 0
    /\ shares[2].ys[1] # 0
    /\ r.ok
    /\ r.val.ys[1] # 0
    /\ r.val = LagrangeShare(shares, dest_x)

\* C3 as stated: 2 or more shares whose widths differ make interpolate fail
\* with MismatchedShareWidth, for every destination x.
C3_MismatchAlwaysThrows ==
    (/\ pc = "done"
     /\ Len(shares) >= 2
     /\ ~EqualWidths(shares))
    => r = Throw("MismatchedShareWidth")

\* C3 amended: 2 or more shares whose widths differ make interpolate fail
\* with MismatchedShareWidth, unless dest_x is the x of a share that stands
\* before the first share whose width differs from the first share's; then
\* the first share with that x is returned.
C3_MismatchThrowsUnlessShortCircuit ==
    (/\ pc = "done"
     /\ Len(shares) >= 2
     /\ ~EqualWidths(shares))
    => IF /\ HasX(shares, dest_x)
          /\ FirstWithX(shares, dest_x) < FirstOtherWidth(shares)
       THEN r = Return(shares[FirstWithX(shares, dest_x)])
       ELSE r = Throw("MismatchedShareWidth")

C3_Witness ==
    /\ pc = "done"
    /\ Len(shares) = 3
    /\ ~EqualWidths(shares)
    /\ FirstOtherWidth(shares) = 2
    /\ shares[2].x = dest_x
    /\ ~HasX(<<shares[1]>>, dest_x)
    /\ r = Throw("MismatchedShareWidth")

\* C4 as stated: 2 or more equal-width shares with the same x at two
\* positions make interpolate fail with DuplicateXValue, for every
\* destination x.
C4_DuplicateAlwaysThrows ==
    (/\ pc = "done"
     /\ Len(shares) >= 2
     /\ EqualWidths(shares)
     /\ ~DistinctXs(shares))
    => r = Throw("DuplicateXValue")

\* C4 amended: 2 or more equal-width shares with the same x at two
\* positions (adjacent or not) make interpolate fail with DuplicateXValue
\* for every destination x that differs from every share's x; when dest_x
\* is the x of some share, the first share with that x is returned.
C4_DuplicateThrowsUnlessShortCircuit ==
    (/\ pc = "done"
     /\ Len(shares) >= 2
     /\ EqualWidths(shares)
     /\ ~DistinctXs(shares))
    => IF HasX(shares, dest_x)
       THEN r = Return(shares[FirstWithX(shares, dest_x)])
       ELSE r = Throw("DuplicateXValue")

C4_Witness ==
    /\ pc = "done"
    /\ Len(shares) = 3
    /\ EqualWidths(shares)
    /\ shares[1] = shares[3]
    /\ shares[1].x # shares[2].x
    /\ ~HasX(shares, dest_x)
    /\ r = Throw("DuplicateXValue")

\* C5: for 2 or more shares with pairwise distinct x and equal widths, and
\* a destination that is the x of a share of the input, interpolate returns
\* that share, whatever its position.
C5_RoundTripAtInputPoint ==
    (/\ pc = "done"
     /\ Len(shares) >= 2
     /\ DistinctXs(shares)
     /\ EqualWidths(shares))
    => \A u \in 1..Len(shares) :
           shares[u].x = dest_x => r = Return(shares[u])

C5_Witness ==
    /\ pc = "done"
    /\ Len(shares) = 3
    /\ DistinctXs(shares)
    /\ EqualWidths(shares)
    /\ Len(shares[3].ys) = 1
    /\ shares[3].x = dest_x
    /\ r = Return(shares[3])

\* C6: with no share or a single share interpolate fails with
\* TooFewShares for every destination x, the single share's own x included.
C6_TooFewShares ==
    (pc = "done" /\ Len(shares) < 2) => r = Throw("TooFewShares")

C6_Witness ==
    /\ pc = "done"
    /\ Len(shares) = 1
    /\ shares[1].x = dest_x
    /\ r = Throw("TooFewShares")

(***************************************************************************)
(* Properties of the field operations.                                     *)
(***************************************************************************)
\* C7: the table-driven product of any two elements is the shift-and-xor
\* product modulo x^8+x^4+x^3+x+1, it is 0 when an operand is 0, and the
\* reduced index of the lookup lies in [0, 255).
C7_MulIsPolynomialProduct ==
    pc = "mul"
    => /\ r = Return(mult_slow(a, b))
       /\ (a = 0 \/ b = 0) => r.val = 0
       /\ (a # 0 /\ b # 0) =>
              MulIndex(a, b) \in 0..(max - 1)

C7_Witness ==
    /\ pc = "mul"
    /\ a = 246
    /\ b = 82
    /\ At(logs, a - 1) + At(logs, b - 1) >= max
    /\ r = Return(mult_slow(a, b))
    /\ r.val \notin {0, a, b}

\* C8: for every a and every nonzero b, a / b succeeds and (a / b) * b is
\* a, and (a * b) / b is a.
C8_DivInvertsMul ==
    /\ (pc = "div" /\ b # 0) => (r.ok /\ Mul(r.val, b) = a)
    /\ (pc = "mul" /\ b # 0) => Div(r.val, b) = Return(a)

C8_Witness ==
    /\ pc = "div"
    /\ a # 0
    /\ b # 0
    /\ At(logs, a - 1) < At(logs, b - 1)
    /\ r.ok
    /\ r.val \notin {0, 1, a}
    /\ Mul(r.val, b) = a

\* C9: for every nonzero a, pow(a, 0) is 1, pow(a, i) for i >= 1 is the
\* product of i copies of a, pow(a, i) * pow(a, -i) is 1 for every i up to
\* MaxExp, and the smallest k >= 1 with pow(a, k) = 1 exists and divides
\* 255.
C9_PowIsExponentiation ==
    a # 0
    => /\ r.ok /\ rinv.ok
       /\ i = 0 => r = Return(1)
       /\ r.val = p
       /\ Mul(r.val, rinv.val) = 1
       /\ k # 0 => (max % k = 0 /\ k <= i)
       /\ i >= max => k # 0

C9_Witness ==
    /\ a = 2
    /\ i = 300
    /\ k = 51
    /\ r.ok
    /\ r.val = p
    /\ r.val # 1
    /\ rinv.ok
    /\ rinv.val # r.val

\* C10: exp(log(v)) is v for every nonzero v and log(exp(e)) is e for every
\* e in [0, 255); every logarithm lies in [0, 255) and every power of the
\* generator is nonzero.
C10_TablesAreInverses ==
    /\ (pc = "log" /\ a # 0) => (r.ok /\ r.val \in 0..(max - 1))
    /\ pc = "explog" => rinv = Return(a)
    /\ pc = "exp" => r.val \in 1..255
    /\ (pc = "logexp" /\ i \in 0..(max - 1)) => rinv = Return(i)

C10_Witness ==
    /\ pc = "explog"
    /\ a = 255
    /\ r = Return(7)
    /\ rinv = Return(255)

\* The share of the pool at x.
PoolShare(x) == shares[FirstWithX(shares, x)]

\* C2: in a pool of shares with pairwise distinct x that all come from the
\* same 3 base shares, interpolating any 3 shares of the pool, or any
\* prefix of 4 or more, at the x of a share q of the pool returns q.
C2_SubsetSupersetAgree ==
    /\ DistinctXs(shares)
    /\ pc \in {"three", "prefix"} => r = Return(PoolShare(dest_x))

C2_Witness ==
    /\ pc = "prefix"
    /\ Len(shares) = 5
    /\ Len(in) = 4
    /\ ~HasX(in, dest_x)
    /\ \E c \in 1..Len(shares[5].ys) : shares[5].ys[c] # 0
    /\ r = Return(shares[5])

====
